---- MODULE Spec2Model ----
(***************************************************************************)
(* Model of src/foor.py: the wall filter (parse_svg_for_walls), the path   *)
(* interpreter (parse_d_attribute) and the pipeline that joins them        *)
(* (visualize_wall_paths).                                                 *)
(*                                                                         *)
(* Strings are sequences of one-character strings, so that str.split,      *)
(* str.replace and float() are modelled by what they do to the characters. *)
(* A float is an integer number of tenths (float("0.5") is 5, float("2")   *)
(* is 20) and its arithmetic is that of the reals. The numeric literals of  *)
(* the inputs are plain decimals with at most one fractional digit and      *)
(* small magnitude; exponents, inf, nan, digit separators and magnitudes    *)
(* whose square leaves the double range (where line 9 raises OverflowError) *)
(* are outside the model.                                                   *)
(***************************************************************************)
EXTENDS Integers, Sequences, FiniteSets, TLC

\* ------------------------------------------------------------------ bounds
\* Longest document (number of elements root.iter() visits).
MaxElems == 2
\* Longest exhaustively enumerated token sequence given to parse_d_attribute.
MaxTokens == 4

\* ------------------------------------------------------------- str methods
Digits == {"0", "1", "2", "3", "4", "5", "6", "7", "8", "9"}
Whitespace == {" ", "\t"}

\* s[a..b] as Python's s[a-1:b]
Slice(s, a, b) == IF a > b THEN <<>> ELSE SubSeq(s, a, b)

\* sub occurs in s starting at position p
OccursAt(s, sub, p) ==
    /\ p >= 1
    /\ p + Len(sub) - 1 <= Len(s)
    /\ \A j \in 1..Len(sub) : s[p + j - 1] = sub[j]

\* str.find from position p (1-based); 0 when there is no occurrence
RECURSIVE Find(_, _, _)
Find(s, sub, p) ==
    IF p + Len(sub) - 1 > Len(s) THEN 0
    ELSE IF OccursAt(s, sub, p) THEN p
    ELSE Find(s, sub, p + 1)

\* `sub in s`
Contains(s, sub) == Find(s, sub, 1) # 0

\* s.split(sep) for a non-empty separator: always at least one part
RECURSIVE Split(_, _)
Split(s, sep) ==
    LET p == Find(s, sep, 1) IN
    IF p = 0 THEN <<s>>
    ELSE <<Slice(s, 1, p - 1)>> \o Split(Slice(s, p + Len(sep), Len(s)), sep)

\* s.replace(old, new): every non-overlapping occurrence, left to right
RECURSIVE Replace(_, _, _)
Replace(s, old, new) ==
    LET p == Find(s, old, 1) IN
    IF p = 0 THEN s
    ELSE Slice(s, 1, p - 1) \o new \o Replace(Slice(s, p + Len(old), Len(s)), old, new)

\* s.split(): runs of whitespace separate, no empty parts
RECURSIVE SplitWs(_, _)
SplitWs(s, cur) ==
    IF s = <<>> THEN (IF cur = <<>> THEN <<>> ELSE <<cur>>)
    ELSE IF Head(s) \in Whitespace
         THEN (IF cur = <<>> THEN <<>> ELSE <<cur>>) \o SplitWs(Tail(s), <<>>)
         ELSE SplitWs(Tail(s), Append(cur, Head(s)))

\* s.strip()
RECURSIVE LStrip(_)
LStrip(s) == IF s # <<>> /\ Head(s) \in Whitespace THEN LStrip(Tail(s)) ELSE s
RECURSIVE RStrip(_)
RStrip(s) ==
    IF s # <<>> /\ s[Len(s)] \in Whitespace THEN RStrip(Slice(s, 1, Len(s) - 1)) ELSE s
Strip(s) == RStrip(LStrip(s))

\* tokens joined by a separator
RECURSIVE Join(_, _)
Join(tokens, sep) ==
    IF tokens = <<>> THEN <<>>
    ELSE IF Len(tokens) = 1 THEN tokens[1]
    ELSE tokens[1] \o sep \o Join(Tail(tokens), sep)

Words(tokens) == Join(tokens, <<" ">>)

\* ------------------------------------------------------------------ float()
DigitVal(c) ==
    CASE c = "0" -> 0 [] c = "1" -> 1 [] c = "2" -> 2 [] c = "3" -> 3
      [] c = "4" -> 4 [] c = "5" -> 5 [] c = "6" -> 6 [] c = "7" -> 7
      [] c = "8" -> 8 [] c = "9" -> 9

RECURSIVE DecimalVal(_)
DecimalVal(ds) ==
    IF ds = <<>> THEN 0 ELSE 10 * DecimalVal(Slice(ds, 1, Len(ds) - 1)) + DigitVal(ds[Len(ds)])

AllDigits(ds) == \A j \in 1..Len(ds) : ds[j] \in Digits

\* float(s): [ok |-> TRUE, val |-> tenths], or ok = FALSE for ValueError.
\* Surrounding whitespace is stripped, one sign is allowed, then digits with an
\* optional point and at least one digit in all. A literal with more than one
\* fractional digit has no value in tenths; the inputs hold none.
float(s) ==
    LET t == Strip(s)
        signed == t # <<>> /\ Head(t) \in {"-", "+"}
        neg == t # <<>> /\ Head(t) = "-"
        body == IF signed THEN Tail(t) ELSE t
        parts == Split(body, <<".">>)
        ip == parts[1]
        fp == IF Len(parts) = 2 THEN parts[2] ELSE <<>>
        wellFormed ==
            /\ Len(parts) <= 2
            /\ AllDigits(ip) /\ AllDigits(fp)
            /\ Len(ip) + Len(fp) >= 1
            /\ Len(fp) <= 1
        mag == 10 * DecimalVal(ip) + DecimalVal(fp)
    IN IF wellFormed THEN [ok |-> TRUE, val |-> IF neg THEN 0 - mag ELSE mag]
       ELSE [ok |-> FALSE, val |-> 0]

\* --------------------------------------------------------------- constants
\* 0.5, in tenths (the stroke-width threshold)
StrokeWidthMin == 5
\* min_segment_length=10, in tenths (the default of parse_svg_for_walls)
DefaultMinSegmentLength == 100
\* scale=100 (the scale visualize_wall_paths passes)
VisualizeScale == 100

\* -------------------------------------------------------- string literals
Str_path == <<"p", "a", "t", "h">>
Str_stroke_width == <<"s", "t", "r", "o", "k", "e", "-", "w", "i", "d", "t", "h">>
Str_stroke_width_colon == Str_stroke_width \o <<":">>
Str_px == <<"p", "x">>
Str_NA == <<"N", "/", "A">>

\* --------------------------------------------------------- exceptions
NoExc == [kind |-> "none", from |-> "none"]
Exc(kind, from) == [kind |-> kind, from |-> from]

\* ------------------------------------------------- parse_svg_for_walls
\* dict.get(key, default)
Get(attrib, key, default) == IF key \in DOMAIN attrib THEN attrib[key] ELSE default

\* element.tag.split('}')[-1]
LocalName(tag) == LET ps == Split(tag, <<"}">>) IN ps[Len(ps)]

IsPath(element) == LocalName(element.tag) = Str_path

\* Lines 41-47: [raised |-> the exception that escapes, or "none"; val |-> stroke_width].
\* Only ValueError is caught; split(...)[1] on a one-part list raises IndexError.
StrokeWidth(style_attr) ==
    IF ~Contains(style_attr, Str_stroke_width) THEN [raised |-> "none", val |-> 0]
    ELSE LET parts == Split(style_attr, Str_stroke_width_colon) IN
         IF Len(parts) < 2 THEN [raised |-> "IndexError", val |-> 0]
         ELSE LET stroke_width_str == Replace(Split(parts[2], <<";">>)[1], Str_px, <<>>)
                  f == float(stroke_width_str)
              IN [raised |-> "none", val |-> IF f.ok THEN f.val ELSE 0]

\* Line 50 with >= for >
PassesStrokeWidthBug(stroke_width) == stroke_width >= StrokeWidthMin
\* Line 50
PassesStrokeWidth(stroke_width) == stroke_width > StrokeWidthMin

\* floor of the square root
RECURSIVE ISqrtBetween(_, _, _)
ISqrtBetween(n, lo, hi) ==
    IF lo >= hi THEN lo
    ELSE LET mid == (lo + hi + 1) \div 2 IN
         IF mid * mid <= n THEN ISqrtBetween(n, mid, hi) ELSE ISqrtBetween(n, lo, mid - 1)

\* Lines 7-9, on tenths: the result is the distance in tenths, rounded down. For
\* a whole number m of tenths, floor(sqrt(n)) >= m exactly when sqrt(n) >= m, so
\* the comparison of line 58 is exact.
calculate_distance(x1, y1, x2, y2) ==
    LET n == (x2 - x1) * (x2 - x1) + (y2 - y1) * (y2 - y1) IN ISqrtBetween(n, 0, n)

\* Line 52 (and line 84): d_attr.replace(',', ' ').split()
Tokenize(d_attr) == SplitWs(Replace(d_attr, <<",">>, <<" ">>), <<>>)

\* Line 58 with > for >=
LongEnoughBug(segment_length, min_len) == segment_length > min_len
\* Line 58
LongEnough(segment_length, min_len) == segment_length >= min_len

\* Lines 53-65 on the token list: [caught |-> the exception the except clause
\* swallows, or "none"; pass |-> the element is appended]. commands[k] of the
\* code is commands[k + 1] here.
ProbeTokens(commands, min_len) ==
    LET Reject(e) == [caught |-> e, pass |-> FALSE]
    IN IF Len(commands) < 4 THEN Reject("none")
       ELSE IF ~float(commands[2]).ok \/ ~float(commands[3]).ok THEN Reject("ValueError")
       ELSE IF Len(commands) < 5 THEN Reject("IndexError")
       ELSE IF ~float(commands[5]).ok THEN Reject("ValueError")
       ELSE IF Len(commands) < 6 THEN Reject("IndexError")
       ELSE IF ~float(commands[6]).ok THEN Reject("ValueError")
       ELSE [caught |-> "none",
             pass |-> LongEnough(calculate_distance(float(commands[2]).val,
                                                    float(commands[3]).val,
                                                    float(commands[5]).val,
                                                    float(commands[6]).val), min_len)]

\* Lines 52-65 with missing coordinates read as 0 instead of rejected
ProbePadded(d_attr, min_len) == ProbeTokens(Tokenize(d_attr) \o << <<"0">>, <<"0">> >>, min_len)
\* Lines 52-65
Probe(d_attr, min_len) == ProbeTokens(Tokenize(d_attr), min_len)

\* Lines 59-63 keeping only the probed tokens of d
PathRecordProbed(path_id, d, style_attr) ==
    LET cs == Tokenize(d) IN
    [id |-> path_id,
     d |-> IF Len(cs) > 6 THEN Words(SubSeq(cs, 1, 6)) ELSE d,
     style |-> style_attr]
\* Lines 59-63
PathRecord(path_id, d, style_attr) == [id |-> path_id, d |-> d, style |-> style_attr]

\* Lines 36-38
PathId(element) == Get(element.attrib, "id", Str_NA)
DAttr(element) == Get(element.attrib, "d", <<>>)
StyleAttr(element) == Get(element.attrib, "style", <<>>)

\* Lines 34-65, one iteration of the loop: "raise", "append" or "skip"
Visit(element, min_len) ==
    IF ~IsPath(element) THEN "skip"
    ELSE LET sw == StrokeWidth(StyleAttr(element)) IN
         IF sw.raised # "none" THEN "raise"
         ELSE IF ~PassesStrokeWidth(sw.val) THEN "skip"
         ELSE IF Probe(DAttr(element), min_len).pass THEN "append"
         ELSE "skip"

\* ------------------------------------------------------------------ inputs
\* d attributes of documents
D_long == Words(<< <<"M">>, <<"0">>, <<"0">>, <<"L">>, <<"2", "0">>, <<"0">> >>)
D_short == Words(<< <<"M">>, <<"0">>, <<"0">>, <<"L">>, <<"5">>, <<"0">> >>)
D_exact == <<"M", " ", "0", ",", "0", " ", " ", "L", "\t", "6", ",", "8">>
D_other_letters == Words(<< <<"L">>, <<"0">>, <<"0">>, <<"c">>, <<"2", "0">>, <<"0">> >>)
D_five_tokens == Words(<< <<"M">>, <<"0">>, <<"0">>, <<"L">>, <<"2", "0">> >>)
D_four_tokens == Words(<< <<"M">>, <<"0">>, <<"0">>, <<"L">> >>)
D_three_tokens == Words(<< <<"M">>, <<"0">>, <<"0">> >>)
D_glued == Words(<< <<"M", "0">>, <<"0">>, <<"L">>, <<"2", "0">>, <<"0">>, <<"0">> >>)
D_not_a_number == Words(<< <<"M">>, <<"0">>, <<"0">>, <<"L">>, <<"x">>, <<"0">> >>)
D_closed == Words(<< <<"M">>, <<"0">>, <<"0">>, <<"L">>, <<"2", "0">>, <<"0">>, <<"Z">> >>)
D_close_first == Words(<< <<"Z">>, <<"0">>, <<"0">>, <<"L">>, <<"2", "0">>, <<"0">> >>)
D_dangling == Words(<< <<"M">>, <<"0">>, <<"0">>, <<"L">>, <<"2", "0">>, <<"0">>, <<"H">> >>)

DocDs ==
    {D_long, D_short, D_exact, D_other_letters, D_five_tokens, D_four_tokens,
     D_three_tokens, D_glued, D_not_a_number, D_closed, D_close_first, D_dangling}

\* style attributes of documents
Style_2px == Str_stroke_width_colon \o <<"2", "p", "x", ";">>
Style_half == Str_stroke_width_colon \o <<"0", ".", "5", "p", "x">>
Style_0_6 == <<"f", "i", "l", "l", ":", "n", "o", "n", "e", ";">>
                 \o Str_stroke_width_colon \o <<" ", "0", ".", "6", ";", "x", ":", "1">>
Style_negative == Str_stroke_width_colon \o <<"-", "1">>
Style_thin == Str_stroke_width_colon \o <<"t", "h", "i", "n", ";">>
Style_empty_value == Str_stroke_width_colon \o <<";">>
Style_no_colon == Str_stroke_width \o <<" ", "2">>
Style_fill_only == <<"f", "i", "l", "l", ":", "r", "e", "d">>

DocStyles ==
    {Style_2px, Style_half, Style_0_6, Style_negative, Style_thin, Style_empty_value,
     Style_no_colon, Style_fill_only, <<>>}

Id_w1 == <<"w", "1">>
Id_w2 == <<"w", "2">>
Tag_ns_path == <<"{", "s", "}">> \o Str_path
Tag_g == <<"g">>

PathElement(id, d, style) ==
    [tag |-> Str_path, attrib |-> [id |-> id, d |-> d, style |-> style]]

\* the elements documents are made of
Elements ==
    {PathElement(Id_w1, d, Style_2px) : d \in DocDs}
      \cup {PathElement(Id_w2, D_long, s) : s \in DocStyles \ {Style_2px}}
      \cup {PathElement(Id_w2, d, Style_half) : d \in {D_five_tokens, D_close_first}}
      \cup {[tag |-> Tag_ns_path, attrib |-> [d |-> D_long, style |-> Style_0_6]],
            [tag |-> Str_path, attrib |-> [id |-> Id_w1, d |-> D_long]],
            [tag |-> Str_path, attrib |-> [id |-> Id_w1, style |-> Style_2px]],
            [tag |-> Tag_g, attrib |-> [id |-> Id_w1, d |-> D_long, style |-> Style_2px]]}

\* the element sequences root.iter() can yield
Docs == UNION {[1..n -> Elements] : n \in 0..MaxElems}

\* min_segment_length of a direct call of parse_svg_for_walls, in tenths
MinSegmentLengths == {50, 250}

\* -------------------------------------------------------------------- state
VARIABLES
    pc,                 \* where the program is
    entry,              \* the function called from the top level
    min_segment_length, \* argument of parse_svg_for_walls
    doc,                \* elements of the parsed tree, in root.iter() order
    visited,            \* how many of them the for loop has visited
    wall_paths,         \* line 31
    sources,            \* history: for each record of wall_paths, the index of its element
    console,            \* what was printed
    result,             \* what parse_svg_for_walls returned
    rendered,           \* how many records visualize_wall_paths has interpreted
    patches,            \* the point lists given to the renderer
    exc,                \* the exception that ended the program, or NoExc
    d_attr, scale,      \* arguments of parse_d_attribute
    commands, i, points, current_point  \* its locals

filterVars == <<entry, min_segment_length, doc, visited, wall_paths, sources, console,
                result, rendered, patches>>
interpVars == <<d_attr, scale, commands, i, points, current_point>>
vars == <<pc, exc, filterVars, interpVars>>

InitCommon ==
    /\ entry = "none"
    /\ min_segment_length = DefaultMinSegmentLength
    /\ doc = <<>>
    /\ visited = 0
    /\ wall_paths = <<>>
    /\ sources = <<>>
    /\ console = <<>>
    /\ result = <<>>
    /\ rendered = 0
    /\ patches = <<>>
    /\ exc = NoExc
    /\ d_attr = <<>>
    /\ scale = VisualizeScale
    /\ commands = <<>>
    /\ i = 0
    /\ points = <<>>
    /\ current_point = <<0, 0>>

Init == pc = "start" /\ InitCommon

\* Line 130: the script calls visualize_wall_paths, which calls
\* parse_svg_for_walls with the default min_segment_length (line 112).
CallVisualize ==
    /\ pc = "start"
    /\ entry' = "visualize_wall_paths"
    /\ min_segment_length' = DefaultMinSegmentLength
    /\ pc' = "load"
    /\ UNCHANGED <<doc, visited, wall_paths, sources, console, result, rendered, patches,
                   exc, interpVars>>

\* Line 11: parse_svg_for_walls called on its own
CallParse ==
    /\ pc = "start"
    /\ \E m \in MinSegmentLengths : min_segment_length' = m
    /\ entry' = "parse_svg_for_walls"
    /\ pc' = "load"
    /\ UNCHANGED <<doc, visited, wall_paths, sources, console, result, rendered, patches,
                   exc, interpVars>>

\* Lines 24-26 and 31: the file is well-formed XML
LoadTree ==
    /\ pc = "load"
    /\ \E t \in Docs : doc' = t
    /\ visited' = 0
    /\ wall_paths' = <<>>
    /\ sources' = <<>>
    /\ pc' = "iter"
    /\ UNCHANGED <<entry, min_segment_length, console, result, rendered, patches, exc,
                   interpVars>>

\* Lines 27-28 without the return of line 29
LoadParseErrorFallsThrough ==
    /\ pc = "load"
    /\ console' = Append(console, [msg |-> "Error parsing SVG file", n |-> 0])
    /\ pc' = "iter"
    /\ UNCHANGED <<entry, min_segment_length, doc, visited, wall_paths, sources, result,
                   rendered, patches, exc, interpVars>>
\* Lines 27-29: ET.ParseError
LoadParseError ==
    /\ pc = "load"
    /\ console' = Append(console, [msg |-> "Error parsing SVG file", n |-> 0])
    /\ result' = <<>>
    /\ pc' = "returned"
    /\ UNCHANGED <<entry, min_segment_length, doc, visited, wall_paths, sources, rendered,
                   patches, exc, interpVars>>

\* Lines 33-65: one iteration of the for loop
VisitElement ==
    /\ pc = "iter"
    /\ visited < Len(doc)
    /\ LET element == doc[visited + 1]
           outcome == Visit(element, min_segment_length)
       IN /\ visited' = visited + 1
          /\ IF outcome = "raise"
             THEN /\ exc' = Exc(StrokeWidth(StyleAttr(element)).raised,
                                "parse_svg_for_walls")
                  /\ pc' = "raised"
                  /\ UNCHANGED <<wall_paths, sources>>
             ELSE /\ wall_paths' = IF outcome = "append"
                                   THEN Append(wall_paths,
                                               PathRecord(PathId(element), DAttr(element),
                                                          StyleAttr(element)))
                                   ELSE wall_paths
                  /\ sources' = IF outcome = "append"
                                THEN Append(sources, visited + 1)
                                ELSE sources
                  /\ UNCHANGED <<pc, exc>>
    /\ UNCHANGED <<entry, min_segment_length, doc, console, result, rendered, patches,
                   interpVars>>

\* Lines 67-71
ReturnWallPaths ==
    /\ pc = "iter"
    /\ visited = Len(doc)
    /\ console' =
         console
           \o << [msg |-> "Detected potential wall paths", n |-> Len(wall_paths)] >>
           \o (IF wall_paths # <<>>
               THEN << [msg |-> "Sample path data",
                        n |-> IF Len(wall_paths) < 3 THEN Len(wall_paths) ELSE 3] >>
               ELSE <<>>)
    /\ result' = wall_paths
    /\ pc' = "returned"
    /\ UNCHANGED <<entry, min_segment_length, doc, visited, wall_paths, sources, rendered,
                   patches, exc, interpVars>>

\* ------------------------------------------------------ parse_d_attribute
\* The locals of a call; i and the indices of commands are the code's (from 0).
Locals(cs, k, ps, cp, e) ==
    [commands |-> cs, i |-> k, points |-> ps, current_point |-> cp, raised |-> e]

Raise(st, e) == [st EXCEPT !.raised = e]

\* commands[k] of the code exists
HasToken(st, k) == k < Len(st.commands)
\* commands[k] of the code
TokenAt(st, k) == st.commands[k + 1]

\* Lines 91-94
MoveOrLine(st, sc) ==
    IF ~HasToken(st, st.i + 1) THEN Raise(st, "IndexError")
    ELSE IF ~float(TokenAt(st, st.i + 1)).ok THEN Raise(st, "ValueError")
    ELSE IF ~HasToken(st, st.i + 2) THEN Raise(st, "IndexError")
    ELSE IF ~float(TokenAt(st, st.i + 2)).ok THEN Raise(st, "ValueError")
    ELSE LET p == <<float(TokenAt(st, st.i + 1)).val * sc,
                    float(TokenAt(st, st.i + 2)).val * sc>>
         IN [st EXCEPT !.current_point = p, !.points = Append(@, p), !.i = @ + 3]

\* Lines 95-98
Horizontal(st, sc) ==
    IF ~HasToken(st, st.i + 1) THEN Raise(st, "IndexError")
    ELSE IF ~float(TokenAt(st, st.i + 1)).ok THEN Raise(st, "ValueError")
    ELSE LET p == <<float(TokenAt(st, st.i + 1)).val * sc, st.current_point[2]>>
         IN [st EXCEPT !.current_point = p, !.points = Append(@, p), !.i = @ + 2]

\* Lines 99-102
Vertical(st, sc) ==
    IF ~HasToken(st, st.i + 1) THEN Raise(st, "IndexError")
    ELSE IF ~float(TokenAt(st, st.i + 1)).ok THEN Raise(st, "ValueError")
    ELSE LET p == <<st.current_point[1], float(TokenAt(st, st.i + 1)).val * sc>>
         IN [st EXCEPT !.current_point = p, !.points = Append(@, p), !.i = @ + 2]

\* Lines 103-105 with a guard that makes Z on an empty list a no-op
ClosePathGuarded(st) ==
    IF st.points = <<>> THEN [st EXCEPT !.i = @ + 1]
    ELSE [st EXCEPT !.points = Append(@, st.points[1]), !.i = @ + 1]
\* Lines 103-105 with Z also moving the current point
ClosePathMoves(st) ==
    IF st.points = <<>> THEN Raise(st, "IndexError")
    ELSE [st EXCEPT !.points = Append(@, st.points[1]), !.current_point = st.points[1],
                    !.i = @ + 1]
\* Lines 103-105: points[0] of an empty list raises IndexError
ClosePath(st) ==
    IF st.points = <<>> THEN Raise(st, "IndexError")
    ELSE [st EXCEPT !.points = Append(@, st.points[1]), !.i = @ + 1]

\* Lines 106-107 skipping an argument along with the token
SkipTokenGuessing(st) == [st EXCEPT !.i = @ + 2]
\* Lines 106-107
SkipToken(st) == [st EXCEPT !.i = @ + 1]

CommandLetters == {<<"M">>, <<"L">>, <<"H">>, <<"V">>, <<"Z">>}

\* Lines 90-107: one iteration of the while loop
Step(st, sc) ==
    LET cmd == TokenAt(st, st.i) IN
    IF cmd = <<"M">> \/ cmd = <<"L">> THEN MoveOrLine(st, sc)
    ELSE IF cmd = <<"H">> THEN Horizontal(st, sc)
    ELSE IF cmd = <<"V">> THEN Vertical(st, sc)
    ELSE IF cmd = <<"Z">> THEN ClosePath(st)
    ELSE SkipToken(st)

\* Lines 89-109: the loop, to its end or to the exception that leaves it
RECURSIVE RunLoop(_, _)
RunLoop(st, sc) ==
    IF st.raised # "none" \/ st.i >= Len(st.commands) THEN st
    ELSE RunLoop(Step(st, sc), sc)

\* Lines 84-109: a whole call
Interpret(d, sc) == RunLoop(Locals(Tokenize(d), 0, <<>>, <<0, 0>>, "none"), sc)

\* inputs of a direct call of parse_d_attribute
TokenAlphabet == {<<"M">>, <<"L">>, <<"H">>, <<"V">>, <<"Z">>, <<"c">>, <<"3">>}
TokenSeqs == UNION {[1..n -> TokenAlphabet] : n \in 0..MaxTokens}
Separators == {<<" ">>, <<",">>}

D_spec_example ==
    Words(<< <<"M">>, <<"1">>, <<"1">>, <<"L">>, <<"2">>, <<"2">>, <<"H">>, <<"5">>,
             <<"V">>, <<"9">>, <<"Z">> >>)
D_close_then_h ==
    Words(<< <<"M">>, <<"1">>, <<"1">>, <<"V">>, <<"2">>, <<"Z">>, <<"H">>, <<"5">> >>)
D_fractions ==
    <<"M", " ", "1", ".", "5", ",", "-", "2", " ", "L", " ", "0", ",", "0", ".", "5">>
D_relative ==
    Words(<< <<"m">>, <<"1">>, <<"1">>, <<"l">>, <<"2">>, <<"2">>, <<"z">> >>)
D_curve ==
    Words(<< <<"C">>, <<"1">>, <<"1">>, <<"2">>, <<"2">>, <<"3">>, <<"3">> >>)

InterpDs ==
    {Join(ts, sep) : ts \in TokenSeqs, sep \in Separators}
      \cup DocDs \cup {<<>>}
      \cup {D_spec_example, D_close_then_h, D_fractions, D_relative, D_curve}

Scales == {1, VisualizeScale}

CurrentLocals == Locals(commands, i, points, current_point, "none")

\* the locals after a step, or the exception it raised
TakeStep(st) ==
    /\ commands' = st.commands
    /\ i' = st.i
    /\ points' = st.points
    /\ current_point' = st.current_point
    /\ IF st.raised = "none"
       THEN UNCHANGED <<pc, exc>>
       ELSE pc' = "raised" /\ exc' = Exc(st.raised, "parse_d_attribute")

InLoop == pc = "loop" /\ i < Len(commands)

\* Lines 84-88: parse_d_attribute called on its own
InterpCall ==
    /\ pc = "start"
    /\ \E d \in InterpDs, sc \in Scales :
         /\ d_attr' = d
         /\ scale' = sc
         /\ commands' = Tokenize(d)
    /\ entry' = "parse_d_attribute"
    /\ points' = <<>>
    /\ current_point' = <<0, 0>>
    /\ i' = 0
    /\ pc' = "loop"
    /\ UNCHANGED <<min_segment_length, doc, visited, wall_paths, sources, console, result,
                   rendered, patches, exc>>

\* Lines 91-94
InterpMoveOrLine ==
    /\ InLoop
    /\ commands[i + 1] \in {<<"M">>, <<"L">>}
    /\ TakeStep(Step(CurrentLocals, scale))
    /\ UNCHANGED <<filterVars, d_attr, scale>>

\* Lines 95-98
InterpHorizontal ==
    /\ InLoop
    /\ commands[i + 1] = <<"H">>
    /\ TakeStep(Step(CurrentLocals, scale))
    /\ UNCHANGED <<filterVars, d_attr, scale>>

\* Lines 99-102
InterpVertical ==
    /\ InLoop
    /\ commands[i + 1] = <<"V">>
    /\ TakeStep(Step(CurrentLocals, scale))
    /\ UNCHANGED <<filterVars, d_attr, scale>>

\* Lines 103-105
InterpClosePath ==
    /\ InLoop
    /\ commands[i + 1] = <<"Z">>
    /\ TakeStep(Step(CurrentLocals, scale))
    /\ UNCHANGED <<filterVars, d_attr, scale>>

\* Lines 106-107
InterpSkipToken ==
    /\ InLoop
    /\ commands[i + 1] \notin CommandLetters
    /\ TakeStep(Step(CurrentLocals, scale))
    /\ UNCHANGED <<filterVars, d_attr, scale>>

\* Lines 89 and 109
InterpReturn ==
    /\ pc = "loop"
    /\ i >= Len(commands)
    /\ pc' = "interp_returned"
    /\ UNCHANGED <<exc, filterVars, interpVars>>

\* ---------------------------------------------------- visualize_wall_paths
\* Lines 118-123: one iteration of the loop, the call of parse_d_attribute in it
\* run to its end
Render ==
    /\ pc = "returned"
    /\ entry = "visualize_wall_paths"
    /\ rendered < Len(result)
    /\ LET d == result[rendered + 1].d
           out == Interpret(d, VisualizeScale)
       IN /\ d_attr' = d
          /\ scale' = VisualizeScale
          /\ commands' = out.commands
          /\ i' = out.i
          /\ points' = out.points
          /\ current_point' = out.current_point
          /\ IF out.raised # "none"
             THEN /\ exc' = Exc(out.raised, "parse_d_attribute")
                  /\ pc' = "raised"
                  /\ UNCHANGED <<rendered, patches>>
             ELSE /\ rendered' = rendered + 1
                  /\ patches' = IF out.points # <<>> THEN Append(patches, out.points)
                                ELSE patches
                  /\ UNCHANGED <<pc, exc>>
    /\ UNCHANGED <<entry, min_segment_length, doc, visited, wall_paths, sources, console,
                   result>>

\* Lines 125-127
Show ==
    /\ pc = "returned"
    /\ entry = "visualize_wall_paths"
    /\ rendered = Len(result)
    /\ pc' = "done"
    /\ UNCHANGED <<exc, filterVars, interpVars>>

\* ------------------------------------------------------- specifications
\* The script: visualize_wall_paths, or parse_svg_for_walls on its own
Next ==
    \/ CallVisualize
    \/ CallParse
    \/ LoadTree
    \/ LoadParseError
    \/ VisitElement
    \/ ReturnWallPaths
    \/ Render
    \/ Show

Spec == Init /\ [][Next]_vars

\* parse_d_attribute on its own, one loop iteration at a time
NextInterp ==
    \/ InterpCall
    \/ InterpMoveOrLine
    \/ InterpHorizontal
    \/ InterpVertical
    \/ InterpClosePath
    \/ InterpSkipToken
    \/ InterpReturn

SpecInterp == Init /\ [][NextInterp]_vars

\* ================================================================ properties
\* What the inputs say, read off the literals above and not computed by the
\* model of the code: the declared stroke width of each style (tenths), and the
\* two coordinate pairs at token positions 1, 2 and 4, 5 of each d (tenths).
NumericStyles == {Style_2px, Style_half, Style_0_6, Style_negative}
UndeclaredStyles == {Style_fill_only, <<>>}
UnparsableStyles == {Style_thin, Style_empty_value, Style_no_colon}

DeclaredWidth(style) ==
    CASE style = Style_2px -> 20
      [] style = Style_half -> 5
      [] style = Style_0_6 -> 6
      [] style = Style_negative -> 0 - 10
      [] OTHER -> 0

ProbedDs == {D_long, D_short, D_exact, D_other_letters, D_closed, D_close_first, D_dangling}
UnprobedDs == {D_five_tokens, D_four_tokens, D_three_tokens, D_glued, D_not_a_number, <<>>}

ProbedCoords(d) ==
    CASE d = D_short -> <<0, 0, 50, 0>>
      [] d = D_exact -> <<0, 0, 60, 80>>
      [] OTHER -> <<0, 0, 200, 0>>

SquaredLength(d) ==
    LET c == ProbedCoords(d) IN (c[3] - c[1]) * (c[3] - c[1]) + (c[4] - c[2]) * (c[4] - c[2])

IsPathElement(e) == e.tag \in {Str_path, Tag_ns_path}
StyleOf(e) == IF "style" \in DOMAIN e.attrib THEN e.attrib.style ELSE <<>>
DOf(e) == IF "d" \in DOMAIN e.attrib THEN e.attrib.d ELSE <<>>

\* the element is a path that is wide enough
Wide(e) ==
    IsPathElement(e) /\ StyleOf(e) \in NumericStyles /\ DeclaredWidth(StyleOf(e)) > 5

\* the element meets both conditions of the wall filter
IsWall(e, min_len) ==
    /\ Wide(e)
    /\ DOf(e) \in ProbedDs
    /\ SquaredLength(DOf(e)) >= min_len * min_len

Included(k) == \E j \in 1..Len(sources) : sources[j] = k

\* where parse_svg_for_walls has handed back its list
Filtered == pc \in {"returned", "done"} \/ exc.from = "parse_d_attribute"

\* C1: a path element whose stroke-width is at most 0.5 (0 when the style declares
\* none) is never in the result of parse_svg_for_walls, whatever its d attribute
\* and whatever min_segment_length.
C1_NarrowNeverIncluded ==
    /\ \A k \in 1..visited :
         ( /\ IsPathElement(doc[k])
           /\ StyleOf(doc[k]) \in NumericStyles \cup UndeclaredStyles
           /\ DeclaredWidth(StyleOf(doc[k])) <= 5 )
         => ~Included(k)
    /\ \A j \in 1..Len(wall_paths) :
         /\ wall_paths[j].style \in NumericStyles
         /\ DeclaredWidth(wall_paths[j].style) > 5

\* a narrow element with a long first segment was visited and the list returned
C1_Witness ==
    /\ Filtered
    /\ min_segment_length = 50
    /\ \E k \in 1..visited :
         /\ StyleOf(doc[k]) = Style_half
         /\ DOf(doc[k]) = D_long
         /\ ~Included(k)

C3_BadStyleSilentlyExcluded ==
    \A k \in 1..visited :
        (IsPathElement(doc[k]) /\ StyleOf(doc[k]) \in UndeclaredStyles \cup UnparsableStyles)
        => /\ ~Included(k)
           /\ exc.from # "parse_svg_for_walls"

\* C4: a wide path element whose d has fewer than 4 tokens, or lacks a float at
\* position 1, 2, 4 or 5, is rejected without an error (the step leaves the
\* list alone, raises nothing and stays in the loop), and the elements visited
\* after it are included exactly when they are walls.
C4_RejectStep ==
    ( /\ pc = "iter"
      /\ visited < Len(doc)
      /\ Wide(doc[visited + 1])
      /\ DOf(doc[visited + 1]) \in UnprobedDs )
    => /\ pc' = "iter"
       /\ visited' = visited + 1
       /\ wall_paths' = wall_paths
       /\ exc' = NoExc

C4_LaterElementsFiltered ==
    \A k, n \in 1..visited :
        ( /\ k < n
          /\ Wide(doc[k]) /\ DOf(doc[k]) \in UnprobedDs )
        => /\ ~Included(k)
           /\ Included(n) <=> IsWall(doc[n], min_segment_length)

C4_BadPathDataRejected == [][C4_RejectStep]_vars /\ []C4_LaterElementsFiltered

\* a five-token d was rejected and the wall after it was included
C4_Witness ==
    /\ Filtered
    /\ visited = 2
    /\ Wide(doc[1]) /\ DOf(doc[1]) = D_five_tokens /\ ~Included(1)
    /\ IsWall(doc[2], min_segment_length) /\ Included(2)

\* C7: when the XML is malformed the error is reported, the result is empty and
\* nothing is raised; no element is visited and no record made.
ParseErrorReported ==
    \E j \in 1..Len(console) : console[j].msg = "Error parsing SVG file"

C7_MalformedXmlGivesEmptyResult ==
    ParseErrorReported
    => /\ pc \in {"returned", "done"}
       /\ exc = NoExc
       /\ result = <<>>
       /\ visited = 0
       /\ wall_paths = <<>>
       /\ patches = <<>>
       /\ Len(console) = 1

\* visualize_wall_paths ran to its end on the empty list
C7_Witness == ParseErrorReported /\ pc = "done" /\ result = <<>>

\* C8: every record of the result comes from exactly one path element that
\* passed both checks, carries its id, whole d and whole style, and the records
\* are in the order the elements are visited.
RECURSIVE WallRecords(_)
WallRecords(k) ==
    IF k = 0 THEN <<>>
    ELSE WallRecords(k - 1)
           \o (IF IsWall(doc[k], min_segment_length)
               THEN << [id |-> IF "id" \in DOMAIN doc[k].attrib THEN doc[k].attrib.id
                               ELSE Str_NA,
                        d |-> doc[k].attrib.d,
                        style |-> doc[k].attrib.style] >>
               ELSE <<>>)

C8_RecordsAreTheWalls ==
    /\ wall_paths = WallRecords(IF exc.from = "parse_svg_for_walls" THEN visited - 1 ELSE visited)
    /\ Len(sources) = Len(wall_paths)
    /\ \A j \in 1..Len(sources) :
         /\ sources[j] \in 1..visited
         /\ j > 1 => sources[j - 1] < sources[j]
    /\ (Filtered /\ ~ParseErrorReported) => result = wall_paths

\* two walls with different ids, one of them with a close command after the
\* probed tokens, were returned
C8_Witness ==
    /\ Filtered
    /\ Len(result) = 2
    /\ result[1].id # result[2].id
    /\ result[2].d = D_closed

\* C10: in the pipeline of visualize_wall_paths, parse_d_attribute never raises
\* on a record the filter emitted.
C10_PipelineNeverFaults ==
    entry = "visualize_wall_paths" => exc.from # "parse_d_attribute"

\* ------------------------------------------------------ parse_d_attribute
IsNumber(tok) == float(tok).ok
Value(tok) == float(tok).val

\* The points the command table gives for a well-formed sequence of absolute
\* commands, and whether the token list is one: [ok, points].
RECURSIVE Trace(_, _, _, _)
Trace(toks, cur, pts, sc) ==
    IF toks = <<>> THEN [ok |-> TRUE, points |-> pts]
    ELSE IF /\ toks[1] \in {<<"M">>, <<"L">>}
            /\ Len(toks) >= 3 /\ IsNumber(toks[2]) /\ IsNumber(toks[3])
         THEN LET p == <<Value(toks[2]) * sc, Value(toks[3]) * sc>>
              IN Trace(SubSeq(toks, 4, Len(toks)), p, Append(pts, p), sc)
    ELSE IF toks[1] = <<"H">> /\ Len(toks) >= 2 /\ IsNumber(toks[2])
         THEN LET p == <<Value(toks[2]) * sc, cur[2]>>
              IN Trace(SubSeq(toks, 3, Len(toks)), p, Append(pts, p), sc)
    ELSE IF toks[1] = <<"V">> /\ Len(toks) >= 2 /\ IsNumber(toks[2])
         THEN LET p == <<cur[1], Value(toks[2]) * sc>>
              IN Trace(SubSeq(toks, 3, Len(toks)), p, Append(pts, p), sc)
    ELSE IF toks[1] = <<"Z">> /\ pts # <<>>
         THEN Trace(Tail(toks), cur, Append(pts, pts[1]), sc)
    ELSE [ok |-> FALSE, points |-> pts]

WellFormed == Trace(commands, <<0, 0>>, <<>>, scale).ok

NumberOfCommands ==
    Cardinality({k \in 1..Len(commands) : commands[k] \in CommandLetters})

\* C5: on a well-formed sequence of absolute commands (Z only after a point)
\* parse_d_attribute returns one point per command, in order: M and L move the
\* current point to the scaled pair, H and V change one coordinate of it, Z
\* repeats the first point and leaves the current point alone.
C5_WellFormedPathTraced ==
    /\ (entry = "parse_d_attribute" /\ WellFormed) => exc = NoExc
    /\ (pc = "interp_returned" /\ WellFormed)
       => /\ points = Trace(commands, <<0, 0>>, <<>>, scale).points
          /\ Len(points) = NumberOfCommands
    /\ (pc = "interp_returned" /\ d_attr = D_spec_example /\ scale = 1)
       => points = << <<10, 10>>, <<20, 20>>, <<50, 20>>, <<50, 90>>, <<10, 10>> >>
    /\ (pc = "interp_returned" /\ d_attr = D_close_then_h /\ scale = 1)
       => points = << <<10, 10>>, <<10, 20>>, <<10, 10>>, <<50, 20>> >>

\* the example of the specification, interpreted to its end
C5_Witness ==
    /\ pc = "interp_returned"
    /\ d_attr = D_spec_example
    /\ scale = 1
    /\ Len(points) = 5
    /\ points[5] = points[1]

\* C6: a Z read while no point has been emitted raises IndexError (points[0] of
\* an empty list); it is neither skipped nor does the call return.
C6_CloseStep ==
    (InLoop /\ commands[i + 1] = <<"Z">> /\ points = <<>>)
    => /\ pc' = "raised"
       /\ exc' = Exc("IndexError", "parse_d_attribute")
       /\ points' = <<>>
       /\ i' = i

C6_CloseOnEmptyListRaises == [][C6_CloseStep]_vars

\* a call ended by the Z that follows only skipped tokens
C6_Witness ==
    /\ pc = "raised"
    /\ exc = Exc("IndexError", "parse_d_attribute")
    /\ points = <<>>
    /\ i > 0
    /\ commands[i + 1] = <<"Z">>

\* C9: a token read in command position that is none of M, L, H, V, Z is skipped:
\* the position advances by one, no point is emitted, the current point keeps its
\* value; so a d without any of the five letters gives no points and no fault.
C9_SkipStep ==
    (InLoop /\ commands[i + 1] \notin CommandLetters)
    => /\ i' = i + 1
       /\ points' = points
       /\ current_point' = current_point
       /\ pc' = "loop"
       /\ exc' = NoExc

C9_NoLetterNoPoint ==
    (entry = "parse_d_attribute" /\ NumberOfCommands = 0)
    => /\ points = <<>>
       /\ exc = NoExc
       /\ pc \in {"loop", "interp_returned"}

C9_UnknownTokensSkipped == [][C9_SkipStep]_vars /\ []C9_NoLetterNoPoint

\* a d of lowercase or curve commands and numbers was read to its end and gave no point
C9_Witness ==
    /\ pc = "interp_returned"
    /\ d_attr \in {D_relative, D_curve}
    /\ i = Len(commands)
    /\ points = <<>>

====
